---- MODULE Spec2Model ----
(***************************************************************************)
(* A model of nexlog, an environment-aware logging facade.                 *)
(*                                                                         *)
(* Three programs of the repository are modelled:                          *)
(*   - the module-level logger of src/index.ts (config with a minimum      *)
(*     level and an environment allow-list, setConfig / getConfig /        *)
(*     resetConfig / setEnvironment / initConfig and the six leveled       *)
(*     calls), under the specifications Spec (configuration and aliasing), *)
(*     SpecRender (rendering of records of every shape) and SpecEnv        *)
(*     (detection at load, setEnvironment and initConfig);                 *)
(*   - the class ConfigurableLogger of src/unnamed/part_003 (currentLevel, *)
(*     enabled / disabled, ssrOnly and a strategy fixed at construction),  *)
(*     under the specification SpecCL, and its default instance under      *)
(*     SpecStrategy and, with the React LoggerProvider that configures     *)
(*     it, under SpecProvider;                                             *)
(*   - the module-level logger of src/unnamed/part_002 (a custom           *)
(*     environment, console messages of the configuration operations and   *)
(*     leveled calls that start initConfig()), under SpecV2, and under     *)
(*     SpecPending with a host that never sets the configuration.          *)
(*                                                                         *)
(* JavaScript strings that the program builds are sequences of tokens, so  *)
(* that the place of every piece of a rendered line can be examined.       *)
(* JavaScript arrays are objects of a heap, so that two references to one  *)
(* array are distinguished from two equal arrays.                          *)
(***************************************************************************)
EXTENDS Integers, Sequences, FiniteSets, TLC

VARIABLES
    config,              \* index.ts: let config (level, reference to the list)
    heap,                \* the arrays of the JavaScript heap, by reference
    currentEnvironment,  \* index.ts: let currentEnvironment
    held,                \* the object the caller got from its last getConfig()
    strategy,            \* ConfigurableLogger: private strategy
    currentLevel,        \* ConfigurableLogger: private currentLevel
    enabled,             \* ConfigurableLogger: private enabled
    ssrOnly,             \* ConfigurableLogger: private ssrOnly
    disabled,            \* ConfigurableLogger: private disabled
    window,              \* whether the global `window` is defined
    runtime,             \* the global `process`: none, node or edge
    initialized,         \* part_002: let initialized of initConfig
    pending,             \* the calls of initConfig that await the file
    reads,               \* how many times the configuration file was read
    props,               \* LoggerProvider: the props its mounted effect closed over
    calls,               \* the console calls made by the last operation
    error,               \* the error the last operation threw, or NoError
    op                   \* the last operation and its arguments

vars == <<config, heap, currentEnvironment, held, strategy, currentLevel,
          enabled, ssrOnly, disabled, window, runtime, initialized, pending,
          reads, props,
          calls, error, op>>

nexlogVars == <<config, heap, currentEnvironment, held>>
loggerVars == <<strategy, currentLevel, enabled, ssrOnly, disabled, window>>
hostVars == <<runtime, initialized, pending, reads, props>>

----------------------------------------------------------------------------
(* Bounds of the model.                                                    *)

\* The longest list a caller grows an array to with push().
MaxListLen == 3

----------------------------------------------------------------------------
(* Types of the program.                                                   *)

LogLevel == {"trace", "debug", "info", "warn", "error", "fatal"}

LogEnvironment == {"server", "browser", "edge"}

\* Values a caller can pass where a LogLevel is expected (a cast lets any
\* string through): the six levels, a name that is no level, the empty
\* string and a name every object inherits from Object.prototype.
LevelInputs == LogLevel \cup {"invalid", "", "toString"}

\* Keys every JavaScript object inherits; `in` finds them.
ObjectPrototypeKeys == {"toString", "constructor"}

NoError == "none"

----------------------------------------------------------------------------
(* JavaScript values and objects.                                          *)

Str(s) == [t |-> "string", v |-> s]
Num(n) == [t |-> "number", v |-> n]
Undefined == [t |-> "undefined", v |-> "undefined"]

\* a ?? b
Coalesce(a, b) == IF a.t = "undefined" THEN b ELSE a

\* `${v}`: the text of a value inside a template literal.
ToStr(v) == v.v

\* The pieces of `${v}` when v may be a string built from pieces.
Text(v) == IF v.t = "text" THEN v.v ELSE <<ToStr(v)>>

\* An object is a sequence of <<key, value>> in insertion order.
HasKey(o, k) == \E i \in 1..Len(o) : o[i][1] = k

Get(o, k) == IF HasKey(o, k)
             THEN o[CHOOSE i \in 1..Len(o) : o[i][1] = k][2]
             ELSE Undefined

\* o[k] = v: an existing key keeps its place, a new key goes last.
Put(o, k, v) == IF HasKey(o, k)
                THEN [i \in 1..Len(o) |-> IF o[i][1] = k THEN <<k, v>> ELSE o[i]]
                ELSE Append(o, <<k, v>>)

\* { ...o, ...src }
RECURSIVE Spread(_, _)
Spread(o, src) == IF src = <<>> THEN o
                  ELSE Spread(Put(o, Head(src)[1], Head(src)[2]), Tail(src))

\* const { [k]: _, ...rest } = o
RECURSIVE Without(_, _)
Without(o, k) == IF o = <<>> THEN <<>>
                 ELSE IF Head(o)[1] = k THEN Without(Tail(o), k)
                 ELSE <<Head(o)>> \o Without(Tail(o), k)

\* JSON.stringify of a value.
JsonValue(v) == IF v.t = "string" THEN <<"\"", v.v, "\"">> ELSE <<v.v>>

\* JSON.stringify of the members of an object; a member whose value is
\* undefined is left out.
RECURSIVE JsonMembers(_, _)
JsonMembers(o, first) ==
    IF o = <<>> THEN <<>>
    ELSE IF Head(o)[2].t = "undefined" THEN JsonMembers(Tail(o), first)
    ELSE (IF first THEN <<>> ELSE <<",">>)
         \o <<"\"", Head(o)[1], "\"", ":">> \o JsonValue(Head(o)[2])
         \o JsonMembers(Tail(o), FALSE)

JsonStringify(o) == <<"{">> \o JsonMembers(o, TRUE) \o <<"}">>

\* A value whose serialization throws (a cycle, a BigInt).
Circular == [t |-> "circular", v |-> "[object Object]"]

\* JSON.stringify(o) throws a TypeError.
JsonThrows(o) == \E i \in 1..Len(o) : o[i][2].t = "circular"

----------------------------------------------------------------------------
(* Output strategies of src/index.ts.                                      *)

logLevelEmojis == [trace |-> "U+1F50D", debug |-> "U+1F41B", info |-> "U+2139",
                   warn |-> "U+26A0", error |-> "U+274C", fatal |-> "U+1F480"]

levelColors == [trace |-> "ESC[90m", debug |-> "ESC[36m", info |-> "ESC[32m",
                warn |-> "ESC[33m", error |-> "ESC[31m", fatal |-> "ESC[31m"]

resetColor == "ESC[0m"

\* new Date().toISOString()
Timestamp == "<ISO-8601>"

ToUpperCase(level) == CASE level = "trace" -> "TRACE"
                        [] level = "debug" -> "DEBUG"
                        [] level = "info"  -> "INFO"
                        [] level = "warn"  -> "WARN"
                        [] level = "error" -> "ERROR"
                        [] level = "fatal" -> "FATAL"

\* Mutant of ConsoleMethod: fatal is given a console method of its own.
ConsoleMethod_ownFatal(level) == level

\* console[level === "fatal" ? "error" : level]
ConsoleMethod(level) == IF level = "fatal" THEN "error" ELSE level

FormattedMessage(level, o) ==
    <<logLevelEmojis[level], " ", "[", Timestamp, "]", " ",
      "[", ToUpperCase(level), "]", " ">>
        \o Text(Coalesce(Get(o, "msg"), Str("undefined")))

AdditionalInfo(o) ==
    IF Len(Without(o, "msg")) # 0 THEN JsonStringify(Without(o, "msg")) ELSE <<>>

ConsoleCall(method, line, info) == [method |-> method, args |-> <<line, info>>]

\* Mutant of ServerLogger: the colour is not reset at the end of the line.
ServerLogger_noReset(level, o) ==
    <<ConsoleCall(ConsoleMethod(level),
                  <<levelColors[level]>> \o FormattedMessage(level, o),
                  AdditionalInfo(o))>>

ServerLogger(level, o) ==
    <<ConsoleCall(ConsoleMethod(level),
                  <<levelColors[level]>> \o FormattedMessage(level, o)
                      \o <<resetColor>>,
                  AdditionalInfo(o))>>

BrowserLogger(level, o) ==
    <<ConsoleCall(ConsoleMethod(level), FormattedMessage(level, o),
                  AdditionalInfo(o))>>

EdgeLogger(level, o) ==
    <<ConsoleCall(ConsoleMethod(level), FormattedMessage(level, o),
                  AdditionalInfo(o))>>

loggerStrategies(env, level, o) ==
    CASE env = "server"  -> ServerLogger(level, o)
      [] env = "edge"    -> EdgeLogger(level, o)
      [] env = "browser" -> BrowserLogger(level, o)

----------------------------------------------------------------------------
(* Environment detection of src/index.ts, from the ambient signals:        *)
(* w: `window` is defined, p: `process` is defined, r: NEXT_RUNTIME is     *)
(* "edge" (read only when process is defined).                             *)

isServer(w, p, r) == ~w /\ p /\ ~r
isBrowser(w) == w
isNextEdgeRuntime(p, r) == p /\ r

DetectedEnvironment(w, p, r) ==
    IF isServer(w, p, r) THEN "server"
    ELSE IF isNextEdgeRuntime(p, r) THEN "edge"
    ELSE "browser"

----------------------------------------------------------------------------
(* Configuration of src/index.ts.                                          *)

logLevelPriority == [trace |-> 0, debug |-> 1, info |-> 2,
                     warn |-> 3, error |-> 4, fatal |-> 5]

\* key in logLevelPriority
InLogLevelPriority(key) ==
    key \in DOMAIN logLevelPriority \/ key \in ObjectPrototypeKeys

\* Mutant of PriorityAtLeast: the comparison is strict.
PriorityAtLeast_strict(a, b) ==
    /\ a \in DOMAIN logLevelPriority
    /\ b \in DOMAIN logLevelPriority
    /\ logLevelPriority[a] > logLevelPriority[b]

\* logLevelPriority[a] >= logLevelPriority[b]; a lookup that yields no
\* number (undefined, or an inherited function) compares as NaN: false.
PriorityAtLeast(a, b) ==
    /\ a \in DOMAIN logLevelPriority
    /\ b \in DOMAIN logLevelPriority
    /\ logLevelPriority[a] >= logLevelPriority[b]

\* References to arrays. DefaultList is the array literal of defaultConfig.
DefaultList == 0
ArrayRefs == {DefaultList, 1, 2}

defaultConfig == [level |-> "info", enabledEnvironments |-> DefaultList]

DefaultListContent == <<"server", "browser", "edge">>

\* array.includes(x)
Includes(list, x) == \E i \in 1..Len(list) : list[i] = x

\* The arrays a reference of the program or of the caller still reaches;
\* the others are garbage and are cleared.
Reachable(cfg, hd) ==
    {DefaultList, cfg.enabledEnvironments}
        \cup (IF hd.live THEN {hd.enabledEnvironments} ELSE {})

Collect(h, cfg, hd) ==
    [r \in ArrayRefs |-> IF r \in Reachable(cfg, hd) THEN h[r] ELSE <<>>]

\* The reference of a newly created array: one that neither the default
\* configuration nor the caller's object hd reaches.
FreshRef(hd) ==
    CHOOSE r \in ArrayRefs :
        /\ r # DefaultList
        /\ ~(hd.live /\ hd.enabledEnvironments = r)
        /\ \A q \in ArrayRefs :
              (q # DefaultList /\ ~(hd.live /\ hd.enabledEnvironments = q)) => r <= q

NoObject == [live |-> FALSE, level |-> "", enabledEnvironments |-> DefaultList]

----------------------------------------------------------------------------
(* Inputs.                                                                 *)

EnvListInputs == {<<>>, <<"server">>, <<"server", "browser">>,
                  <<"server", "invalid">>}

\* Partial<NexlogConfig>: the keys present and their values.
PartialConfigs ==
    {[keys |-> {"level"}, level |-> l, enabledEnvironments |-> <<>>] :
        l \in LevelInputs}
    \cup {[keys |-> {"enabledEnvironments"}, level |-> "", enabledEnvironments |-> e] :
        e \in EnvListInputs}
    \cup {[keys |-> {"level", "enabledEnvironments"}, level |-> "debug",
           enabledEnvironments |-> <<"server", "invalid">>],
          [keys |-> {"level", "enabledEnvironments"}, level |-> "invalid",
           enabledEnvironments |-> <<"server">>],
          [keys |-> {"level", "enabledEnvironments"}, level |-> "warn",
           enabledEnvironments |-> <<"server">>]}
    \cup {[keys |-> {}, level |-> "", enabledEnvironments |-> <<>>]}

\* The (msg, meta) arguments of the leveled calls.
LogInputs == {<<Str("m"), <<>>>>,
              <<Undefined, <<<<"a", Num("1")>>>>>>}

\* What a caller writes into the object getConfig() returned.
HeldLevelWrites == {"trace"}
PushInputs == {"edge"}

----------------------------------------------------------------------------
(* Operations of src/index.ts.                                             *)

\* The error setConfig throws for newConfig, or NoError.
SetConfigError(newConfig) ==
    IF /\ "level" \in newConfig.keys
       /\ newConfig.level # ""
       /\ ~InLogLevelPriority(newConfig.level)
    THEN "Invalid log level"
    ELSE IF /\ "enabledEnvironments" \in newConfig.keys
            /\ \E i \in 1..Len(newConfig.enabledEnvironments) :
                 ~Includes(<<"server", "browser", "edge">>,
                           newConfig.enabledEnvironments[i])
    THEN "Invalid environment"
    ELSE NoError

\* Mutant of Merge: the fields newConfig lacks go back to the defaults.
Merge_overDefaults(cfg, newConfig, ref) ==
    [level |-> IF "level" \in newConfig.keys THEN newConfig.level
               ELSE defaultConfig.level,
     enabledEnvironments |->
        IF "enabledEnvironments" \in newConfig.keys THEN ref
        ELSE defaultConfig.enabledEnvironments]

\* { ...config, ...newConfig }, the list of newConfig being the array ref.
Merge(cfg, newConfig, ref) ==
    [level |-> IF "level" \in newConfig.keys THEN newConfig.level ELSE cfg.level,
     enabledEnvironments |->
        IF "enabledEnvironments" \in newConfig.keys THEN ref
        ELSE cfg.enabledEnvironments]

\* Mutant of setConfig: the level is merged before the environments are
\* validated, so a rejected call leaves the level behind.
setConfig_mergeFirst(newConfig) ==
    /\ op' = [name |-> "setConfig", arg |-> newConfig]
    /\ error' = SetConfigError(newConfig)
    /\ calls' = <<>>
    /\ held' = NoObject
    /\ IF SetConfigError(newConfig) = "Invalid log level"
       THEN /\ config' = config
            /\ heap' = Collect(heap, config, NoObject)
       ELSE IF SetConfigError(newConfig) = "Invalid environment"
       THEN /\ config' = Merge(config, [newConfig EXCEPT !.keys = @ \ {"enabledEnvironments"}],
                               config.enabledEnvironments)
            /\ heap' = Collect(heap, config, NoObject)
       ELSE LET ref == FreshRef(NoObject)
                h1  == IF "enabledEnvironments" \in newConfig.keys
                       THEN [heap EXCEPT ![ref] = newConfig.enabledEnvironments]
                       ELSE heap
            IN /\ config' = Merge(config, newConfig, ref)
               /\ heap' = Collect(h1, config', NoObject)
    /\ UNCHANGED <<currentEnvironment, loggerVars, hostVars>>

setConfig(newConfig) ==
    /\ op' = [name |-> "setConfig", arg |-> newConfig]
    /\ error' = SetConfigError(newConfig)
    /\ calls' = <<>>
    /\ held' = NoObject
    /\ IF SetConfigError(newConfig) # NoError
       THEN /\ config' = config
            /\ heap' = Collect(heap, config, NoObject)
       ELSE LET ref == FreshRef(NoObject)
                h1  == IF "enabledEnvironments" \in newConfig.keys
                       THEN [heap EXCEPT ![ref] = newConfig.enabledEnvironments]
                       ELSE heap
            IN /\ config' = Merge(config, newConfig, ref)
               /\ heap' = Collect(h1, config', NoObject)
    /\ UNCHANGED <<currentEnvironment, loggerVars, hostVars>>

\* getConfig(): a new object with the fields of config.
getConfigResult == [live |-> TRUE, level |-> config.level,
                    enabledEnvironments |-> config.enabledEnvironments]

getConfig ==
    /\ op' = [name |-> "getConfig", arg |-> <<>>]
    /\ error' = NoError
    /\ calls' = <<>>
    /\ held' = getConfigResult
    /\ UNCHANGED <<config, heap, currentEnvironment, loggerVars, hostVars>>

\* Mutant of resetConfig: the environment is reset with the configuration.
resetConfig_alsoEnvironment ==
    /\ op' = [name |-> "resetConfig", arg |-> <<>>]
    /\ error' = NoError
    /\ calls' = <<>>
    /\ held' = NoObject
    /\ config' = [level |-> defaultConfig.level,
                  enabledEnvironments |-> defaultConfig.enabledEnvironments]
    /\ heap' = Collect(heap, config', NoObject)
    /\ currentEnvironment' = "server"
    /\ UNCHANGED <<loggerVars, hostVars>>

resetConfig ==
    /\ op' = [name |-> "resetConfig", arg |-> <<>>]
    /\ error' = NoError
    /\ calls' = <<>>
    /\ held' = NoObject
    /\ config' = [level |-> defaultConfig.level,
                  enabledEnvironments |-> defaultConfig.enabledEnvironments]
    /\ heap' = Collect(heap, config', NoObject)
    /\ UNCHANGED <<currentEnvironment, loggerVars, hostVars>>

getEnvironment == currentEnvironment

setEnvironment(env) ==
    /\ op' = [name |-> "setEnvironment", arg |-> env]
    /\ error' = NoError
    /\ calls' = <<>>
    /\ held' = NoObject
    /\ currentEnvironment' = env
    /\ heap' = Collect(heap, config, NoObject)
    /\ UNCHANGED <<config, loggerVars, hostVars>>

\* Mutant of shouldLog: the allow-list is not consulted.
shouldLog_levelOnly(level) == PriorityAtLeast(level, config.level)

shouldLog(level) ==
    /\ PriorityAtLeast(level, config.level)
    /\ Includes(heap[config.enabledEnvironments], getEnvironment)

\* The strategy throws: JSON.stringify(rest) fails before the console call.
StrategyThrows(o) == JsonThrows(Without(o, "msg"))

\* { msg: msg ?? "undefined", ...meta }
LogObject(msg, meta) == Spread(<<<<"msg", Coalesce(msg, Str("undefined"))>>>>, meta)

\* Mutant of log: a call without a message is dropped.
log_skipAbsent(level, msg, meta) ==
    IF shouldLog(level) /\ msg.t # "undefined" /\ ~StrategyThrows(LogObject(msg, meta))
    THEN loggerStrategies(getEnvironment, level, LogObject(msg, meta))
    ELSE <<>>

\* log(level, msg, meta): the console calls it makes.
log(level, msg, meta) ==
    IF shouldLog(level) /\ ~StrategyThrows(LogObject(msg, meta))
    THEN loggerStrategies(getEnvironment, level, LogObject(msg, meta))
    ELSE <<>>

\* log(level, msg, meta): the error it throws.
logError(level, msg, meta) ==
    IF shouldLog(level) /\ StrategyThrows(LogObject(msg, meta))
    THEN "TypeError" ELSE NoError

\* nexlog.trace ... nexlog.fatal
Leveled(level, msg, meta) ==
    /\ op' = [name |-> "log", arg |-> [level |-> level, msg |-> msg, meta |-> meta]]
    /\ error' = logError(level, msg, meta)
    /\ calls' = log(level, msg, meta)
    /\ held' = NoObject
    /\ heap' = Collect(heap, config, NoObject)
    /\ UNCHANGED <<config, currentEnvironment, loggerVars, hostVars>>

----------------------------------------------------------------------------
(* The caller's writes to the object it got from getConfig(), made before  *)
(* its next call of the API (the object is dropped at that call; the       *)
(* arrays it shares with the program stay as the caller left them).        *)

HeldSetLevel(l) ==
    /\ held.live
    /\ op' = [name |-> "held.level=", arg |-> l]
    /\ error' = NoError
    /\ calls' = <<>>
    /\ held' = [held EXCEPT !.level = l]
    /\ UNCHANGED <<config, heap, currentEnvironment, loggerVars, hostVars>>

HeldPush(e) ==
    /\ held.live
    /\ Len(heap[held.enabledEnvironments]) < MaxListLen
    /\ op' = [name |-> "held.enabledEnvironments.push", arg |-> e]
    /\ error' = NoError
    /\ calls' = <<>>
    /\ heap' = [heap EXCEPT ![held.enabledEnvironments] = Append(@, e)]
    /\ UNCHANGED <<config, held, currentEnvironment, loggerVars, hostVars>>

HeldPop ==
    /\ held.live
    /\ Len(heap[held.enabledEnvironments]) > 0
    /\ op' = [name |-> "held.enabledEnvironments.pop", arg |-> <<>>]
    /\ error' = NoError
    /\ calls' = <<>>
    /\ heap' = [heap EXCEPT ![held.enabledEnvironments] =
                    SubSeq(@, 1, Len(@) - 1)]
    /\ UNCHANGED <<config, held, currentEnvironment, loggerVars, hostVars>>

----------------------------------------------------------------------------
(* Output strategies and ConfigurableLogger of src/unnamed/part_003.       *)

PlainMessage(level, o) == <<"[", ToUpperCase(level), "]", " ", ToStr(Get(o, "msg"))>>

ServerLogger_v1(level, o) ==
    <<ConsoleCall(ConsoleMethod(level),
                  <<levelColors[level]>> \o PlainMessage(level, o) \o <<resetColor>>,
                  AdditionalInfo(o))>>

BrowserLogger_v1(level, o) ==
    <<ConsoleCall(ConsoleMethod(level), PlainMessage(level, o), AdditionalInfo(o))>>

EdgeLogger_v1(level, o) ==
    <<ConsoleCall(ConsoleMethod(level), PlainMessage(level, o), AdditionalInfo(o))>>

loggerStrategies_v1(name, level, o) ==
    CASE name = "server"  -> ServerLogger_v1(level, o)
      [] name = "edge"    -> EdgeLogger_v1(level, o)
      [] name = "browser" -> BrowserLogger_v1(level, o)

logLevels == [trace |-> 0, debug |-> 1, info |-> 2,
              warn |-> 3, error |-> 4, fatal |-> 5]

\* logLevels[a] >= logLevels[b]; undefined compares as NaN: false.
LevelAtLeast(a, b) ==
    /\ a \in DOMAIN logLevels
    /\ b \in DOMAIN logLevels
    /\ logLevels[a] >= logLevels[b]

\* Mutant of SsrGate: the test of `window` is inverted.
SsrGate_inverted == ~ssrOnly \/ (ssrOnly /\ window)

\* !this.ssrOnly || (this.ssrOnly && typeof window === "undefined")
SsrGate == ~ssrOnly \/ (ssrOnly /\ ~window)

\* getEnvironment() of part_003: detection at the time of the call.
getEnvironment_v1 ==
    IF ~window THEN "server"
    ELSE IF runtime = "edge" THEN "edge"
    ELSE "browser"

\* Mutant of ConfigurableLogger_log: the strategy is looked up from the
\* environment detected at the time of the call.
ConfigurableLogger_log_detecting(level, msg, meta) ==
    IF ~disabled /\ LevelAtLeast(level, currentLevel)
    THEN IF SsrGate
         THEN loggerStrategies_v1(getEnvironment_v1, level, Spread(<<<<"msg", msg>>>>, meta))
         ELSE <<>>
    ELSE <<>>

\* this.strategy.log(level, { msg, ...meta }) behind the gates of log().
ConfigurableLogger_log(level, msg, meta) ==
    IF ~disabled /\ LevelAtLeast(level, currentLevel)
    THEN IF SsrGate
         THEN loggerStrategies_v1(strategy, level, Spread(<<<<"msg", msg>>>>, meta))
         ELSE <<>>
    ELSE <<>>

\* logger.trace ... logger.fatal
LoggerLeveled(level, msg, meta) ==
    /\ op' = [name |-> "logger.log",
              arg |-> [level |-> level, msg |-> msg, meta |-> meta]]
    /\ error' = NoError
    /\ calls' = ConfigurableLogger_log(level, msg, meta)
    /\ UNCHANGED <<loggerVars, nexlogVars, hostVars>>

setLevel(level) ==
    /\ op' = [name |-> "setLevel", arg |-> level]
    /\ error' = NoError
    /\ calls' = <<>>
    /\ currentLevel' = level
    /\ UNCHANGED <<strategy, enabled, ssrOnly, disabled, window, nexlogVars, hostVars>>

getLevel == currentLevel

\* Mutant of enable: only the flag isEnabled() reads is set.
enable_flagOnly ==
    /\ op' = [name |-> "enable", arg |-> <<>>]
    /\ error' = NoError
    /\ calls' = <<>>
    /\ enabled' = TRUE
    /\ UNCHANGED <<strategy, currentLevel, ssrOnly, disabled, window, nexlogVars, hostVars>>

enable ==
    /\ op' = [name |-> "enable", arg |-> <<>>]
    /\ error' = NoError
    /\ calls' = <<>>
    /\ enabled' = TRUE
    /\ disabled' = FALSE
    /\ UNCHANGED <<strategy, currentLevel, ssrOnly, window, nexlogVars, hostVars>>

\* Mutant of disable: only the flag isEnabled() reads is cleared.
disable_flagOnly ==
    /\ op' = [name |-> "disable", arg |-> <<>>]
    /\ error' = NoError
    /\ calls' = <<>>
    /\ enabled' = FALSE
    /\ UNCHANGED <<strategy, currentLevel, ssrOnly, disabled, window, nexlogVars, hostVars>>

disable ==
    /\ op' = [name |-> "disable", arg |-> <<>>]
    /\ error' = NoError
    /\ calls' = <<>>
    /\ enabled' = FALSE
    /\ disabled' = TRUE
    /\ UNCHANGED <<strategy, currentLevel, ssrOnly, window, nexlogVars, hostVars>>

isEnabled == enabled

setSSROnly(flag) ==
    /\ op' = [name |-> "setSSROnly", arg |-> flag]
    /\ error' = NoError
    /\ calls' = <<>>
    /\ ssrOnly' = flag
    /\ UNCHANGED <<strategy, currentLevel, enabled, disabled, window, nexlogVars, hostVars>>

\* The host defines or deletes the global `window`.
SetWindow(defined) ==
    /\ window # defined
    /\ op' = [name |-> "window", arg |-> defined]
    /\ error' = NoError
    /\ calls' = <<>>
    /\ window' = defined
    /\ UNCHANGED <<strategy, currentLevel, enabled, ssrOnly, disabled, nexlogVars, hostVars>>

----------------------------------------------------------------------------
(* The specifications. A behaviour runs one of the two programs; the       *)
(* variables of the other one keep the values NoLogger / NexlogIdle.       *)

NoLogger ==
    /\ strategy = "none"
    /\ currentLevel = "info"
    /\ enabled = TRUE
    /\ ssrOnly = FALSE
    /\ disabled = FALSE
    /\ window = FALSE

NexlogLoaded ==
    /\ config = [level |-> defaultConfig.level,
                 enabledEnvironments |-> defaultConfig.enabledEnvironments]
    /\ heap = [r \in ArrayRefs |->
                  IF r = DefaultList THEN DefaultListContent ELSE <<>>]
    /\ held = NoObject

\* No LoggerProvider is mounted.
NoProps == [mounted |-> FALSE, initialLevel |-> "", ssrOnly |-> FALSE, disabled |-> FALSE]

\* The process signals are not followed and no initConfig() is under way.
HostIdle ==
    /\ runtime = "node"
    /\ initialized = FALSE
    /\ pending = <<>>
    /\ reads = 0
    /\ props = NoProps

\* src/index.ts after the module is loaded.
Init ==
    /\ NexlogLoaded
    /\ HostIdle
    /\ \E w \in BOOLEAN, p \in BOOLEAN, r \in BOOLEAN :
          currentEnvironment = DetectedEnvironment(w, p, r)
    /\ NoLogger
    /\ calls = <<>>
    /\ error = NoError
    /\ op = [name |-> "load", arg |-> <<>>]

Next ==
    \/ \E newConfig \in PartialConfigs : setConfig(newConfig)
    \/ getConfig
    \/ resetConfig
    \/ \E env \in LogEnvironment : setEnvironment(env)
    \/ \E level \in LogLevel, in \in LogInputs :
          Leveled(level, in[1], in[2])
    \/ \E l \in HeldLevelWrites : HeldSetLevel(l)
    \/ \E e \in PushInputs : HeldPush(e)
    \/ HeldPop

Spec == Init /\ [][Next]_vars

\* new ConfigurableLogger(strategy, initialLevel, initiallyEnabled, ssrOnly)
InitCL ==
    /\ NexlogLoaded
    /\ HostIdle
    /\ currentEnvironment = "server"
    /\ strategy \in LogEnvironment
    /\ currentLevel \in LogLevel
    /\ enabled \in BOOLEAN
    /\ ssrOnly \in BOOLEAN
    /\ disabled = ~enabled
    /\ window \in BOOLEAN
    /\ calls = <<>>
    /\ error = NoError
    /\ op = [name |-> "new", arg |-> <<>>]

NextCL ==
    \/ \E level \in LevelInputs : setLevel(level)
    \/ enable
    \/ disable
    \/ \E flag \in BOOLEAN : setSSROnly(flag)
    \/ \E defined \in BOOLEAN : SetWindow(defined)
    \/ \E level \in LogLevel, in \in LogInputs :
          LoggerLeveled(level, in[1], in[2])

SpecCL == InitCL /\ [][NextCL]_vars

\* Either program.
InitAll == Init \/ InitCL

NextAll ==
    \/ strategy = "none" /\ Next
    \/ strategy # "none" /\ NextCL

SpecAll == InitAll /\ [][NextAll]_vars

----------------------------------------------------------------------------
(* The module-level logger of src/unnamed/part_002: a fourth environment,  *)
(* custom, a format function in the configuration, console messages from   *)
(* the configuration operations, and leveled calls that start initConfig() *)
(* without awaiting it. It runs on the variables of src/index.ts, under    *)
(* the specification SpecV2; window and runtime are the signals the module *)
(* read when it was loaded.                                                *)

\* The most calls of initConfig() that await the file at one time.
MaxPending == 2

\* The most reads of the configuration file that are followed.
MaxReads == 2

LogEnvironment_v2 == {"server", "browser", "edge", "custom"}

\* The values of `process`: not defined, defined, defined with
\* process.env.NEXT_RUNTIME === "edge".
Runtimes == {"none", "node", "edge"}

\* A console call with one argument.
ConsoleCall1(method, line) == [method |-> method, args |-> <<line>>]

\* A string built from pieces, as a value.
TextValue(line) == [t |-> "text", v |-> line]

\* loggerStrategies.custom.log
CustomLogger(level, o) ==
    <<ConsoleCall1("warn",
        <<"Custom logger not implemented. Level: ", level, ", Message: ">>
            \o Text(Get(o, "msg")))>>

loggerStrategies_v2(env, level, o) ==
    IF env = "custom" THEN CustomLogger(level, o)
    ELSE loggerStrategies(env, level, o)

\* defaultConfig.format(level, msg, meta)
DefaultFormat(level, msg, meta) ==
    <<logLevelEmojis[level], " ", "[", Timestamp, "]", " ",
      "[", ToUpperCase(level), "]", " ">> \o Text(msg) \o <<" ">>
        \o JsonStringify(meta)

\* The partial configuration with no key.
EmptyPartial == [keys |-> {}, level |-> "", enabledEnvironments |-> <<>>]

\* What callers pass to setConfig of part_002.
PartialConfigs_v2 ==
    {[keys |-> {"level"}, level |-> "trace", enabledEnvironments |-> <<>>],
     [keys |-> {"level"}, level |-> "invalid", enabledEnvironments |-> <<>>],
     [keys |-> {"enabledEnvironments"}, level |-> "",
      enabledEnvironments |-> <<"custom">>],
     [keys |-> {"enabledEnvironments"}, level |-> "",
      enabledEnvironments |-> <<"custom", "invalid">>]}

\* What nexlog.config.js exports when it exists.
FileConfigs == {EmptyPartial,
                [keys |-> {"level"}, level |-> "debug", enabledEnvironments |-> <<>>],
                [keys |-> {"level"}, level |-> "invalid", enabledEnvironments |-> <<>>],
                [keys |-> {"enabledEnvironments"}, level |-> "",
                 enabledEnvironments |-> <<"server">>]}

SetConfigError_v2(newConfig) ==
    IF /\ "level" \in newConfig.keys
       /\ newConfig.level # ""
       /\ ~InLogLevelPriority(newConfig.level)
    THEN "Invalid log level"
    ELSE IF /\ "enabledEnvironments" \in newConfig.keys
            /\ \E i \in 1..Len(newConfig.enabledEnvironments) :
                 ~Includes(<<"server", "browser", "edge", "custom">>,
                           newConfig.enabledEnvironments[i])
    THEN "Invalid environment"
    ELSE NoError

AppliedConfigCall == [method |-> "info", args |-> <<<<"U+2705", " Applied config:">>, <<"config">>>>]

\* The body of setConfig: the configuration and the heap it leaves, the
\* console calls it makes and the error it throws.
SetConfigResult_v2(newConfig) ==
    IF SetConfigError_v2(newConfig) # NoError
    THEN [config |-> config, heap |-> Collect(heap, config, NoObject),
          calls |-> <<>>, error |-> SetConfigError_v2(newConfig)]
    ELSE LET ref == FreshRef(NoObject)
             h1  == IF "enabledEnvironments" \in newConfig.keys
                    THEN [heap EXCEPT ![ref] = newConfig.enabledEnvironments]
                    ELSE heap
             c1  == Merge(config, newConfig, ref)
         IN [config |-> c1, heap |-> Collect(h1, c1, NoObject),
             calls |-> <<AppliedConfigCall>>, error |-> NoError]

setConfig_v2(newConfig) ==
    /\ op' = [name |-> "setConfig", arg |-> newConfig]
    /\ error' = SetConfigResult_v2(newConfig).error
    /\ calls' = SetConfigResult_v2(newConfig).calls
    /\ config' = SetConfigResult_v2(newConfig).config
    /\ heap' = SetConfigResult_v2(newConfig).heap
    /\ UNCHANGED <<held, currentEnvironment, loggerVars, hostVars>>

resetConfig_v2 ==
    /\ op' = [name |-> "resetConfig", arg |-> <<>>]
    /\ error' = NoError
    /\ calls' = <<ConsoleCall1("info", <<"U+1F504", " Configuration reset to default.">>)>>
    /\ config' = [level |-> defaultConfig.level,
                  enabledEnvironments |-> defaultConfig.enabledEnvironments]
    /\ heap' = Collect(heap, config', NoObject)
    /\ UNCHANGED <<held, currentEnvironment, loggerVars, hostVars>>

setEnvironment_v2(env) ==
    /\ op' = [name |-> "setEnvironment", arg |-> env]
    /\ error' = NoError
    /\ calls' = <<ConsoleCall1("info", <<"U+1F30D", " Environment set to: ", env>>)>>
    /\ currentEnvironment' = env
    /\ UNCHANGED <<config, heap, held, loggerVars, hostVars>>

\* logLevelPriority[a] < logLevelPriority[b]; a lookup that yields no
\* number compares as NaN: false.
PriorityLess(a, b) ==
    /\ a \in DOMAIN logLevelPriority
    /\ b \in DOMAIN logLevelPriority
    /\ logLevelPriority[a] < logLevelPriority[b]

shouldLog_v2(level) ==
    /\ Includes(heap[config.enabledEnvironments], getEnvironment)
    /\ ~PriorityLess(level, config.level)

\* log(level, msg, meta) of part_002: the console calls it makes and the
\* error it throws. config.format is the format of defaultConfig.
log_v2(level, msg, meta) ==
    IF ~shouldLog_v2(level) THEN [calls |-> <<>>, error |-> NoError]
    ELSE IF JsonThrows(meta) THEN [calls |-> <<>>, error |-> "TypeError"]
    ELSE [calls |-> loggerStrategies_v2(getEnvironment, level,
                        Spread(<<<<"msg", TextValue(DefaultFormat(level,
                                    Coalesce(msg, Str("undefined")), meta))>>>>,
                               meta)),
          error |-> NoError]

\* initConfig() up to its await: a call made before initialized is set
\* starts loadConfigFile() and waits for it.
InitConfigCalled(origin) ==
    IF initialized THEN pending ELSE Append(pending, origin)

\* Mutant of Leveled_v2: the call waits for the file, which sets the level
\* debug, before it logs.
Leveled_v2_awaiting(level, msg, meta) ==
    /\ initialized \/ Len(pending) < MaxPending
    /\ op' = [name |-> "log", arg |-> [level |-> level, msg |-> msg, meta |-> meta]]
    /\ pending' = InitConfigCalled("leveled")
    /\ config' = [config EXCEPT !.level = "debug"]
    /\ calls' = log_v2(level, msg, meta).calls
    /\ error' = log_v2(level, msg, meta).error
    /\ UNCHANGED <<heap, held, currentEnvironment, loggerVars, runtime, initialized, reads, props>>

\* nexlog.trace ... nexlog.fatal of part_002: initConfig(); log(...)
Leveled_v2(level, msg, meta) ==
    /\ initialized \/ Len(pending) < MaxPending
    /\ op' = [name |-> "log", arg |-> [level |-> level, msg |-> msg, meta |-> meta]]
    /\ pending' = InitConfigCalled("leveled")
    /\ calls' = log_v2(level, msg, meta).calls
    /\ error' = log_v2(level, msg, meta).error
    /\ UNCHANGED <<nexlogVars, loggerVars, runtime, initialized, reads, props>>

\* The caller calls initConfig().
initConfig_v2 ==
    /\ initialized \/ Len(pending) < MaxPending
    /\ op' = [name |-> "initConfig", arg |-> <<>>]
    /\ pending' = InitConfigCalled("caller")
    /\ calls' = <<>>
    /\ error' = NoError
    /\ UNCHANGED <<nexlogVars, loggerVars, runtime, initialized, reads, props>>

LoadedCall == [method |-> "info",
               args |-> <<<<"U+1F4C4", " Loaded config from ", "nexlog.config.js", ":">>,
                          <<"userConfig">>>>]
LoadErrorCall == [method |-> "error",
                  args |-> <<<<"U+274C", " Error loading nexlog config from ",
                               "nexlog.config.js", ":">>, <<"error">>>>]
NoFileCall == ConsoleCall1("warn",
                  <<"U+26A0", " No config file found, using default configuration.">>)
NoPathCall == ConsoleCall1("warn",
                  <<"U+26A0", " Path module not available, skipping config file load">>)
UsingDefaultCall == ConsoleCall1("info", <<"U+2699", " Using default configuration.">>)

\* What loadConfigFile() resolves to and the console calls it makes: off
\* the server nothing is read; on the server the file is found, or is
\* missing (with or without the message for an error other than ENOENT),
\* or the path module cannot be imported.
LoadOutcomes ==
    IF isServer(window, runtime # "none", runtime = "edge")
    THEN {[file |-> f, calls |-> <<LoadedCall>>, read |-> TRUE] : f \in FileConfigs}
         \cup {[file |-> EmptyPartial, calls |-> c, read |-> TRUE] :
                  c \in {<<NoFileCall>>, <<LoadErrorCall, NoFileCall>>}}
         \cup {[file |-> EmptyPartial, calls |-> <<NoPathCall>>, read |-> FALSE]}
    ELSE {[file |-> EmptyPartial, calls |-> <<>>, read |-> FALSE]}

\* loadConfigFile() has resolved for the oldest waiting call of
\* initConfig(), which goes on: setConfig(fileConfig) or the message, then
\* initialized = true (not reached when setConfig throws).
ConfigLoaded_v2(outcome) ==
    /\ pending # <<>>
    /\ outcome.read => reads < MaxReads
    /\ reads' = IF outcome.read THEN reads + 1 ELSE reads
    /\ LET r == IF outcome.file.keys # {}
                THEN SetConfigResult_v2(outcome.file)
                ELSE [config |-> config, heap |-> heap,
                      calls |-> <<UsingDefaultCall>>, error |-> NoError]
       IN /\ op' = [name |-> "initConfig.loaded",
                    arg |-> [origin |-> Head(pending), file |-> outcome.file]]
          /\ calls' = outcome.calls \o r.calls
          /\ error' = r.error
          /\ config' = r.config
          /\ heap' = r.heap
          /\ initialized' = (initialized \/ r.error = NoError)
    /\ pending' = Tail(pending)
    /\ UNCHANGED <<held, currentEnvironment, loggerVars, runtime, props>>

\* The module (src/index.ts or src/unnamed/part_002) after it is loaded,
\* with the signals it read: currentEnvironment is detected from them.
InitDetected ==
    /\ NexlogLoaded
    /\ window \in BOOLEAN
    /\ runtime \in Runtimes
    /\ currentEnvironment = DetectedEnvironment(window, runtime # "none", runtime = "edge")
    /\ initialized = FALSE
    /\ pending = <<>>
    /\ reads = 0
    /\ props = NoProps
    /\ strategy = "none"
    /\ currentLevel = "info"
    /\ enabled = TRUE
    /\ ssrOnly = FALSE
    /\ disabled = FALSE
    /\ calls = <<>>
    /\ error = NoError
    /\ op = [name |-> "load", arg |-> <<>>]

\* src/unnamed/part_002 after the module is loaded.
InitV2 == InitDetected

NextV2 ==
    \/ \E newConfig \in PartialConfigs_v2 : setConfig_v2(newConfig)
    \/ resetConfig_v2
    \/ \E env \in LogEnvironment_v2 : setEnvironment_v2(env)
    \/ \E level \in LogLevel, in \in LogInputs :
          Leveled_v2(level, in[1], in[2])
    \/ initConfig_v2
    \/ \E outcome \in LoadOutcomes : ConfigLoaded_v2(outcome)

SpecV2 == InitV2 /\ [][NextV2]_vars

----------------------------------------------------------------------------
(* The rendering of src/index.ts over more records: the specification      *)
(* SpecRender makes leveled calls with metadata of every shape, in each     *)
(* environment, with the minimum level info or trace.                       *)

MetaInputs == {<<>>,
               <<<<"a", Num("1")>>, <<"b", Str("x")>>>>,
               <<<<"msg", Str("x")>>>>,
               <<<<"a", Num("1")>>, <<"msg", Str("x")>>>>,
               <<<<"c", Circular>>>>}

RenderInputs == {<<m, meta>> : m \in {Str("m"), Undefined}, meta \in MetaInputs}

RenderConfigs == {[keys |-> {"level"}, level |-> "trace", enabledEnvironments |-> <<>>]}

NextRender ==
    \/ \E newConfig \in RenderConfigs : setConfig(newConfig)
    \/ \E env \in LogEnvironment : setEnvironment(env)
    \/ \E level \in LogLevel, in \in RenderInputs :
          Leveled(level, in[1], in[2])

SpecRender == Init /\ [][NextRender]_vars

----------------------------------------------------------------------------
(* The default instance `logger` of src/unnamed/part_003, created when the  *)
(* module is loaded, and the specification SpecStrategy, whose behaviours   *)
(* run either that instance or the module-level logger of src/index.ts.     *)

\* const logger = new ConfigurableLogger(loggerStrategies[getEnvironment()],
\*     NODE_ENV === "production" ? "warn" : "debug", NODE_ENV !== "test", false)
InitLogger ==
    /\ NexlogLoaded
    /\ currentEnvironment = "server"
    /\ window \in BOOLEAN
    /\ runtime \in Runtimes
    /\ strategy = getEnvironment_v1
    /\ currentLevel \in {"warn", "debug"}
    /\ enabled \in BOOLEAN
    /\ ssrOnly = FALSE
    /\ disabled = ~enabled
    /\ initialized = FALSE
    /\ pending = <<>>
    /\ reads = 0
    /\ props = NoProps
    /\ calls = <<>>
    /\ error = NoError
    /\ op = [name |-> "new", arg |-> <<>>]

InitStrategy == Init \/ InitLogger

NextStrategy ==
    \/ strategy = "none" /\ NextRender
    \/ strategy # "none" /\ NextCL

SpecStrategy == InitStrategy /\ [][NextStrategy]_vars

----------------------------------------------------------------------------
(* initConfig of src/index.ts and the specification SpecEnv: the           *)
(* module-level logger with the signals it read at load, setEnvironment,   *)
(* the configuration operations, initConfig() and the leveled calls.       *)

PathErrorCall == ConsoleCall1("error", <<"Path module not available">>)
FileErrorCall == [method |-> "error",
                  args |-> <<<<"Error loading nexlog config from ", "nexlog.config.js", ":">>,
                             <<"error">>>>]

\* What loadConfigFile() of index.ts resolves to and the console calls it
\* makes: in the browser and on the edge nothing is read; where `join` was
\* not imported a message is written; on the server the file is found, is
\* missing, or cannot be loaded.
LoadOutcomes_ts ==
    IF isBrowser(window) \/ isNextEdgeRuntime(runtime # "none", runtime = "edge")
    THEN {[file |-> EmptyPartial, calls |-> <<>>, read |-> FALSE]}
    ELSE IF ~isServer(window, runtime # "none", runtime = "edge")
    THEN {[file |-> EmptyPartial, calls |-> <<PathErrorCall>>, read |-> FALSE]}
    ELSE {[file |-> f, calls |-> <<>>, read |-> TRUE] : f \in FileConfigs}
         \cup {[file |-> EmptyPartial, calls |-> <<FileErrorCall>>, read |-> TRUE],
               [file |-> EmptyPartial, calls |-> <<PathErrorCall>>, read |-> FALSE]}

\* The caller calls initConfig(): loadConfigFile() is started and awaited.
initConfig ==
    /\ Len(pending) < MaxPending
    /\ op' = [name |-> "initConfig", arg |-> <<>>]
    /\ pending' = Append(pending, "caller")
    /\ calls' = <<>>
    /\ error' = NoError
    /\ held' = NoObject
    /\ heap' = Collect(heap, config, NoObject)
    /\ UNCHANGED <<config, currentEnvironment, loggerVars, runtime, initialized, reads, props>>

\* Mutant of ConfigLoaded: the caller gets the configuration as it was
\* before the file was merged.
ConfigLoaded_stale(outcome) ==
    /\ pending # <<>>
    /\ outcome.read => reads < MaxReads
    /\ reads' = IF outcome.read THEN reads + 1 ELSE reads
    /\ LET applies == outcome.file.keys # {}
           failed == applies /\ SetConfigError(outcome.file) # NoError
           ref == FreshRef(NoObject)
           h1  == IF applies /\ ~failed /\ "enabledEnvironments" \in outcome.file.keys
                  THEN [heap EXCEPT ![ref] = outcome.file.enabledEnvironments]
                  ELSE heap
       IN /\ op' = [name |-> "initConfig.loaded",
                    arg |-> [origin |-> Head(pending), file |-> outcome.file]]
          /\ calls' = outcome.calls
          /\ error' = IF applies THEN SetConfigError(outcome.file) ELSE NoError
          /\ config' = IF applies /\ ~failed THEN Merge(config, outcome.file, ref)
                       ELSE config
          /\ held' = IF failed THEN NoObject
                     ELSE [live |-> TRUE, level |-> config.level,
                           enabledEnvironments |-> config.enabledEnvironments]
          /\ heap' = Collect(h1, config', held')
    /\ pending' = Tail(pending)
    /\ UNCHANGED <<currentEnvironment, loggerVars, runtime, initialized, props>>

\* loadConfigFile() has resolved for the oldest waiting initConfig(), which
\* goes on: setConfig(fileConfig) when the file has a key, then the caller
\* gets getConfig() (nothing when setConfig threw).
ConfigLoaded(outcome) ==
    /\ pending # <<>>
    /\ outcome.read => reads < MaxReads
    /\ reads' = IF outcome.read THEN reads + 1 ELSE reads
    /\ LET applies == outcome.file.keys # {}
           failed == applies /\ SetConfigError(outcome.file) # NoError
           ref == FreshRef(NoObject)
           h1  == IF applies /\ ~failed /\ "enabledEnvironments" \in outcome.file.keys
                  THEN [heap EXCEPT ![ref] = outcome.file.enabledEnvironments]
                  ELSE heap
       IN /\ op' = [name |-> "initConfig.loaded",
                    arg |-> [origin |-> Head(pending), file |-> outcome.file]]
          /\ calls' = outcome.calls
          /\ error' = IF applies THEN SetConfigError(outcome.file) ELSE NoError
          /\ config' = IF applies /\ ~failed THEN Merge(config, outcome.file, ref)
                       ELSE config
          /\ held' = IF failed THEN NoObject
                     ELSE [live |-> TRUE, level |-> config'.level,
                           enabledEnvironments |-> config'.enabledEnvironments]
          /\ heap' = Collect(h1, config', held')
    /\ pending' = Tail(pending)
    /\ UNCHANGED <<currentEnvironment, loggerVars, runtime, initialized, props>>

EnvConfigs == {[keys |-> {"level"}, level |-> "trace", enabledEnvironments |-> <<>>],
               [keys |-> {"enabledEnvironments"}, level |-> "",
                enabledEnvironments |-> <<"server", "browser">>],
               [keys |-> {"enabledEnvironments"}, level |-> "",
                enabledEnvironments |-> <<"server", "invalid">>]}

NextEnv ==
    \/ \E newConfig \in EnvConfigs : setConfig(newConfig)
    \/ resetConfig
    \/ \E env \in LogEnvironment : setEnvironment(env)
    \/ \E level \in LogLevel, in \in LogInputs :
          Leveled(level, in[1], in[2])
    \/ initConfig
    \/ \E outcome \in LoadOutcomes_ts : ConfigLoaded(outcome)

SpecEnv == InitDetected /\ [][NextEnv]_vars

----------------------------------------------------------------------------
(* The specification SpecPending: part_002 with a host that leaves the     *)
(* configuration alone, so that only initConfig() changes it.              *)

NextPending ==
    \/ \E env \in LogEnvironment_v2 : setEnvironment_v2(env)
    \/ \E level \in LogLevel, in \in LogInputs :
          Leveled_v2(level, in[1], in[2])
    \/ initConfig_v2
    \/ \E outcome \in LoadOutcomes : ConfigLoaded_v2(outcome)

SpecPending == InitDetected /\ [][NextPending]_vars

----------------------------------------------------------------------------
(* LoggerProvider of part_003 and the specification SpecProvider: the      *)
(* default logger instance, its operations, and a provider that is         *)
(* mounted, rendered again with other props and unmounted.                 *)

\* The props of a mounted provider; initialLevel "" is the prop left out.
ProviderProps == [mounted : {TRUE}, initialLevel : {"", "info", "error"},
                  ssrOnly : BOOLEAN, disabled : BOOLEAN]

StartedMessage == Str("Application started")
StoppedMessage == Str("Application stopped")

\* logAppStatus(status) in the closure of the effect that ran with props p.
logAppStatus(p, message) ==
    IF ~p.disabled THEN ConfigurableLogger_log("info", message, <<>>) ELSE <<>>

\* The cleanup the effect returned: () => logAppStatus("stop")
EffectCleanup == IF props.mounted THEN logAppStatus(props, StoppedMessage) ELSE <<>>

\* Mutant of ProviderEffect: "Application started" is logged before the
\* logger is configured.
ProviderEffect_logFirst(p) ==
    /\ p # props
    /\ op' = [name |-> "provider.effect", arg |-> p]
    /\ error' = NoError
    /\ props' = p
    /\ currentLevel' = IF p.initialLevel # "" THEN p.initialLevel ELSE currentLevel
    /\ ssrOnly' = p.ssrOnly
    /\ enabled' = ~p.disabled
    /\ disabled' = p.disabled
    /\ calls' = EffectCleanup \o logAppStatus(p, StartedMessage)
    /\ UNCHANGED <<strategy, window, nexlogVars, runtime, initialized, pending, reads>>

\* useEffect(..., [initialLevel, ssrOnly, disabled]): at mount, and when a
\* render brings other props, the cleanup of the previous effect runs and
\* then the effect: configureLogger(); logAppStatus("start").
ProviderEffect(p) ==
    /\ p # props
    /\ op' = [name |-> "provider.effect", arg |-> p]
    /\ error' = NoError
    /\ props' = p
    /\ currentLevel' = IF p.initialLevel # "" THEN p.initialLevel ELSE currentLevel
    /\ ssrOnly' = p.ssrOnly
    /\ enabled' = ~p.disabled
    /\ disabled' = p.disabled
    /\ UNCHANGED <<strategy, window, nexlogVars, runtime, initialized, pending, reads>>
    /\ calls' = EffectCleanup \o (logAppStatus(p, StartedMessage))'

\* The provider is unmounted: the cleanup of its effect runs.
ProviderUnmount ==
    /\ props.mounted
    /\ op' = [name |-> "provider.cleanup", arg |-> props]
    /\ error' = NoError
    /\ calls' = EffectCleanup
    /\ props' = NoProps
    /\ UNCHANGED <<loggerVars, nexlogVars, runtime, initialized, pending, reads>>

NextProvider ==
    \/ NextCL
    \/ \E p \in ProviderProps : ProviderEffect(p)
    \/ ProviderUnmount

SpecProvider == InitLogger /\ [][NextProvider]_vars

----------------------------------------------------------------------------
(* The claims.                                                             *)

\* The ranks the specification gives the levels.
ClaimRank == [trace |-> 0, debug |-> 1, info |-> 2,
              warn |-> 3, error |-> 4, fatal |-> 5]

\* What getConfig() shows: the level and the content of the list.
ConfigValue == [level |-> config.level,
                enabledEnvironments |-> heap[config.enabledEnvironments]]

EnvironmentPermitted == Includes(heap[config.enabledEnvironments], currentEnvironment)

\* C1: for all levels L (of the call) and C (the configured minimum), with
\* the logger enabled and the current environment permitted, a leveled call
\* makes exactly one console call when rank(L) >= rank(C) and none otherwise,
\* in the module-level logger and in ConfigurableLogger alike.
C1_LevelGate ==
    /\ (/\ op.name = "log"
        /\ config.level \in LogLevel
        /\ EnvironmentPermitted)
       => Len(calls) = IF ClaimRank[op.arg.level] >= ClaimRank[config.level]
                       THEN 1 ELSE 0
    /\ (/\ op.name = "logger.log"
        /\ isEnabled
        /\ currentLevel \in LogLevel
        /\ (ssrOnly => ~window))
       => Len(calls) = IF ClaimRank[op.arg.level] >= ClaimRank[currentLevel]
                       THEN 1 ELSE 0

\* A call at exactly the minimum level was emitted.
C1_Witness ==
    /\ op.name = "log"
    /\ op.arg.level = "warn"
    /\ config.level = "warn"
    /\ EnvironmentPermitted
    /\ Len(calls) = 1

\* C2: every record emitted at level L goes to the console method named L,
\* except fatal, which goes to console.error; with the minimum level fatal,
\* error() reaches no console method and fatal() makes exactly one call, on
\* console.error; whatever the strategy (server, browser, edge).
C2_SinkRouting ==
    op.name = "log" =>
        /\ \A i \in 1..Len(calls) :
              calls[i].method = IF op.arg.level = "fatal" THEN "error"
                                ELSE op.arg.level
        /\ (config.level = "fatal" /\ op.arg.level = "error") => calls = <<>>
        /\ (config.level = "fatal" /\ op.arg.level = "fatal" /\ EnvironmentPermitted)
              => (Len(calls) = 1 /\ calls[1].method = "error")

\* fatal() at the minimum level fatal was written to console.error.
C2_Witness ==
    /\ op.name = "log"
    /\ op.arg.level = "fatal"
    /\ config.level = "fatal"
    /\ Len(calls) = 1
    /\ calls[1].method = "error"

C3_State ==
    /\ op.name = "disable" => ~isEnabled
    /\ op.name = "enable" => isEnabled
    /\ (op.name = "logger.log" /\ ~isEnabled) => calls = <<>>

C3_Step ==
    /\ (~isEnabled /\ op'.name # "enable") => ~isEnabled'
    /\ op'.name \in {"enable", "disable"} =>
          /\ currentLevel' = currentLevel
          /\ ssrOnly' = ssrOnly
          /\ strategy' = strategy
          /\ window' = window

\* C3: after disable(), isEnabled() is false and no leveled call at any
\* level makes a console call, until enable() is called; after enable(),
\* isEnabled() is true, and neither call changes the level, the ssrOnly
\* setting or the strategy, so the gating is as it was before.
C3_DisableSilences == []C3_State /\ [][C3_Step]_vars

\* A call that passes the level and ssrOnly gates was dropped after disable().
C3_Witness ==
    /\ op.name = "logger.log"
    /\ ~isEnabled
    /\ LevelAtLeast(op.arg.level, currentLevel)
    /\ ~ssrOnly
    /\ calls = <<>>

\* C4: with ssrOnly true, a leveled call that passes the enabled and level
\* gates makes exactly one console call when no `window` global is defined
\* at the time of the call and none when one is; with ssrOnly false the
\* environment does not matter.
C4_SsrOnlyGate ==
    (/\ op.name = "logger.log"
     /\ isEnabled
     /\ currentLevel \in LogLevel
     /\ ClaimRank[op.arg.level] >= ClaimRank[currentLevel])
    => Len(calls) = IF ssrOnly /\ window THEN 0 ELSE 1

\* A call that passes the other gates was dropped in the browser.
C4_Witness ==
    /\ op.name = "logger.log"
    /\ isEnabled
    /\ LevelAtLeast(op.arg.level, currentLevel)
    /\ ssrOnly
    /\ window
    /\ calls = <<>>

\* C5: a leveled call emits only if the current environment is a member of
\* config.enabledEnvironments at the time of the call; otherwise it makes
\* no console call, whatever its level.
C5_AllowList ==
    (op.name = "log" /\ ~EnvironmentPermitted) => calls = <<>>

\* A call at or above the minimum level was dropped by the allow-list.
C5_Witness ==
    /\ op.name = "log"
    /\ PriorityAtLeast(op.arg.level, config.level)
    /\ ~EnvironmentPermitted
    /\ calls = <<>>

\* C6: setConfig throws for every supplied level that is not one of the six
\* levels and for every supplied list that holds a name that is no
\* environment; so config.level is always one of the six levels and every
\* member of config.enabledEnvironments is an environment.
C6_SetConfigValidates ==
    /\ (/\ op.name = "setConfig"
        /\ \/ "level" \in op.arg.keys /\ op.arg.level \notin LogLevel
           \/ /\ "enabledEnvironments" \in op.arg.keys
              /\ \E i \in 1..Len(op.arg.enabledEnvironments) :
                    op.arg.enabledEnvironments[i] \notin LogEnvironment)
       => error # NoError
    /\ config.level \in LogLevel
    /\ \A i \in 1..Len(ConfigValue.enabledEnvironments) :
          ConfigValue.enabledEnvironments[i] \in LogEnvironment

\* C7: when setConfig throws, the configuration is what it was before the
\* call: no field of the rejected partial is merged.
C7_NoPartialMerge ==
    [][(op'.name = "setConfig" /\ error' # NoError) => ConfigValue' = ConfigValue]_vars

\* A partial with a valid level, other than the current one, and an invalid
\* list was rejected.
C7_Witness ==
    /\ op.name = "setConfig"
    /\ error = "Invalid environment"
    /\ "level" \in op.arg.keys
    /\ op.arg.level \in LogLevel
    /\ op.arg.level # config.level

\* C8: setLevel with a value that is not one of the six levels fails with
\* an error and leaves the current level unchanged.
C8_SetLevelValidates ==
    /\ (op.name = "setLevel" /\ op.arg \notin LogLevel) => error # NoError
    /\ getLevel \in LogLevel

\* C9: whatever the caller does to the value getConfig() returned, what
\* getConfig() shows later and the gating decisions are unchanged.
C9_GetConfigIsolated ==
    [][op'.name \in {"held.level=", "held.enabledEnvironments.push",
                     "held.enabledEnvironments.pop"}
        => /\ ConfigValue' = ConfigValue
           /\ \A level \in LogLevel : shouldLog(level)' = shouldLog(level)]_vars

\* C10: after resetConfig(), getConfig() shows level "info" and
\* enabledEnvironments [server, browser, edge]; a second resetConfig()
\* yields the same.
C10_ResetRestoresDefaults ==
    op.name = "resetConfig" =>
        ConfigValue = [level |-> "info",
                       enabledEnvironments |-> <<"server", "browser", "edge">>]

\* C11: in the program whose environments include custom, after
\* resetConfig() a leveled call at info or above is emitted whichever of
\* server, browser, edge and custom is the current environment.
C11_ResetEnablesAll ==
    [][(/\ op.name = "resetConfig"
        /\ op'.name = "log"
        /\ ClaimRank[op'.arg.level] >= ClaimRank["info"])
       => calls' # <<>>]_vars

\* The line holds the level tag followed by the text where the message goes.
TagThenText(line, level, text) ==
    \E i \in 1..(Len(line) - 4) :
        SubSeq(line, i, i + 4) = <<"[", ToUpperCase(level), "]", " ", text>>

\* Metadata that can be serialized and holds no message of its own.
PlainMeta(meta) == ~HasKey(meta, "msg") /\ ~JsonThrows(meta)

\* C12: a leveled call without a message (undefined) that passes the gates
\* does not throw and makes exactly one console call, whose first argument
\* holds the level tag followed by the literal "undefined" where the message
\* goes, in the server, browser and edge strategies (the metadata being
\* serializable and bringing no message of its own).
C12_AbsentMessage ==
    (/\ op.name = "log"
     /\ op.arg.msg = Undefined
     /\ PlainMeta(op.arg.meta)
     /\ shouldLog(op.arg.level))
    => /\ error = NoError
       /\ Len(calls) = 1
       /\ TagThenText(calls[1].args[1], op.arg.level, "undefined")

\* info(undefined) was rendered by the browser strategy.
C12_Witness ==
    /\ op.name = "log"
    /\ op.arg.msg = Undefined
    /\ op.arg.meta = <<>>
    /\ currentEnvironment = "browser"
    /\ Len(calls) = 1
    /\ TagThenText(calls[1].args[1], op.arg.level, "undefined")

\* C13: for every metadata object of a leveled call that emits, the second
\* argument of the console call is the compact JSON text of exactly that
\* object, all its keys in insertion order, when it has a key, and the
\* empty string when it has none.
C13_MetadataRoundTrip ==
    (op.name = "log" /\ calls # <<>>)
    => calls[1].args[2] = IF Len(op.arg.meta) > 0
                          THEN JsonStringify(op.arg.meta) ELSE <<>>

\* The leveled call that passed the gates made one console call, with two
\* arguments.
C14_During ==
    (op.name = "log" /\ shouldLog_v2(op.arg.level) /\ error = NoError)
    => (Len(calls) = 1 /\ Len(calls[1].args) = 2)

\* What an emitted leveled call started makes no console call later: here
\* the call of initConfig() it started is the only one waiting.
C14_Afterwards ==
    (/\ op.name = "log"
     /\ calls # <<>>
     /\ ~initialized
     /\ Len(pending) = 1
     /\ op'.name = "initConfig.loaded")
    => calls' = <<>>

\* C14: a leveled call that passes all gates causes exactly one console
\* call in total, with exactly two arguments (the line and the metadata
\* string); nothing else is written to the console because of the call,
\* neither during it nor afterwards.
C14_OneSinkCall == []C14_During /\ [][C14_Afterwards]_vars

\* The ANSI codes of the specification: the colour of each level and the
\* reset.
ClaimColour == [trace |-> "ESC[90m", debug |-> "ESC[36m", info |-> "ESC[32m",
                warn |-> "ESC[33m", error |-> "ESC[31m", fatal |-> "ESC[31m"]
ClaimReset == "ESC[0m"
ClaimAnsi == {ClaimColour[l] : l \in LogLevel} \cup {ClaimReset}

\* C15: for every level, the first argument of a record rendered on the
\* server starts with the ANSI colour of the level (gray for trace, cyan
\* for debug, green for info, yellow for warn, red for error and fatal) and
\* ends with the reset code; the first argument of a record rendered in the
\* browser or on the edge holds no ANSI escape.
C15_AnsiColours ==
    (op.name = "log" /\ calls # <<>>)
    => LET line == calls[1].args[1]
       IN IF currentEnvironment = "server"
          THEN Head(line) = ClaimColour[op.arg.level] /\ line[Len(line)] = ClaimReset
          ELSE \A i \in 1..Len(line) : line[i] \notin ClaimAnsi

\* A trace record was rendered on the server, gray first and reset last.
C15_Witness ==
    /\ op.name = "log"
    /\ op.arg.level = "trace"
    /\ currentEnvironment = "server"
    /\ calls # <<>>
    /\ Head(calls[1].args[1]) = "ESC[90m"
    /\ calls[1].args[1][Len(calls[1].args[1])] = "ESC[0m"

\* The record of the leveled call o, as the strategy of the environment env
\* renders it.
Rendered(o, env) ==
    IF o.name = "log"
    THEN loggerStrategies(env, o.arg.level, LogObject(o.arg.msg, o.arg.meta))
    ELSE loggerStrategies_v1(env, o.arg.level,
                             Spread(<<<<"msg", o.arg.msg>>>>, o.arg.meta))

RenderedBy(env) == Rendered(op, env)

\* C16: every emitted record is rendered by the strategy of the environment
\* that is current at the time of the call: once the environment has
\* changed, through setEnvironment or through the browser global appearing
\* or disappearing, the next record uses the strategy of the new
\* environment, not that of the time the logger was created or the module
\* was loaded.
C16_CallTimeStrategy ==
    /\ (op.name = "log" /\ calls # <<>>) => calls = RenderedBy(currentEnvironment)
    /\ (op.name = "logger.log" /\ calls # <<>>) => calls = RenderedBy(getEnvironment_v1)

C16_AmendedState ==
    /\ (op.name = "log" /\ calls # <<>>) => calls = RenderedBy(currentEnvironment)
    /\ (op.name = "logger.log" /\ calls # <<>>) => calls = RenderedBy(strategy)

C16_AmendedStep ==
    /\ (op.name = "setEnvironment" /\ op'.name = "log" /\ calls' # <<>>)
          => calls' = Rendered(op', op.arg)
    /\ op'.name \notin {"setEnvironment", "load"} => currentEnvironment' = currentEnvironment
    /\ strategy' = strategy

\* C16 as amended: the module-level logger renders every emitted record
\* with the strategy of the environment set by the latest setEnvironment
\* (the one detected at load before any), and a ConfigurableLogger renders
\* every emitted record with the strategy it was constructed with, which
\* the browser global appearing or disappearing does not change.
C16_Amended == []C16_AmendedState /\ [][C16_AmendedStep]_vars

\* The default instance was created on the server, the browser global
\* appeared, and the next record was still rendered by the server strategy.
C16_Witness ==
    /\ op.name = "logger.log"
    /\ calls # <<>>
    /\ strategy = "server"
    /\ getEnvironment_v1 = "browser"
    /\ calls = RenderedBy("server")

\* The gate and the strategy of a leveled call saw the current environment.
C17_State ==
    op.name = "log" =>
        /\ ~EnvironmentPermitted => calls = <<>>
        /\ calls # <<>> => calls = Rendered(op, currentEnvironment)

C17_Step ==
    /\ op'.name = "setEnvironment"
          => (currentEnvironment' = op'.arg /\ ConfigValue' = ConfigValue)
    /\ op'.name # "setEnvironment" => currentEnvironment' = currentEnvironment

\* C17: the environment override is one value that only setEnvironment
\* changes: after setEnvironment(e) every gate check and every choice of
\* strategy sees e until the next setEnvironment, whatever setConfig,
\* resetConfig, initConfig and leveled calls come in between; and
\* setEnvironment changes neither config.level nor
\* config.enabledEnvironments.
C17_EnvironmentOverride == []C17_State /\ [][C17_Step]_vars

\* initConfig() has applied the file's configuration and the environment is
\* still the one that was set, not the detected one.
C17_Witness ==
    /\ op.name = "initConfig.loaded"
    /\ op.arg.file.keys # {}
    /\ error = NoError
    /\ currentEnvironment # DetectedEnvironment(window, runtime # "none", runtime = "edge")

\* The rule of the specification for the detected environment env, given
\* the browser global and the edge-runtime marker.
DetectionRule(env) ==
    /\ env \in {"server", "browser", "edge"}
    /\ env = "browser" => window
    /\ runtime = "edge" => env = "edge"
    /\ (~window /\ runtime # "edge") => env = "server"

\* C18: for every combination of the ambient signals (browser global
\* present or not, process present or not, edge-runtime marker set or not)
\* the detected environment is one of server, browser and edge, and it is
\* browser only if the browser global is present, edge whenever the marker
\* is set, and server otherwise; for the detection of index.ts at load and
\* for getEnvironment() of ConfigurableLogger's module alike.
C18_DetectionRule ==
    /\ op.name = "load" => DetectionRule(currentEnvironment)
    /\ DetectionRule(getEnvironment_v1)

\* C19: a setConfig(partial) that succeeds sets exactly the fields present
\* in partial to the values supplied and leaves every other field of the
\* configuration as it was: setConfig({level}) does not change
\* enabledEnvironments and setConfig({enabledEnvironments}) does not change
\* level.
C19_SetConfigFrame ==
    [][(op'.name = "setConfig" /\ error' = NoError)
       => /\ ConfigValue'.level =
                IF "level" \in op'.arg.keys THEN op'.arg.level
                ELSE ConfigValue.level
          /\ ConfigValue'.enabledEnvironments =
                IF "enabledEnvironments" \in op'.arg.keys
                THEN op'.arg.enabledEnvironments
                ELSE ConfigValue.enabledEnvironments]_vars

\* setConfig({level}) succeeded while the list was not the default one, and
\* the list is as it was set.
C19_Witness ==
    /\ op.name = "setConfig"
    /\ error = NoError
    /\ op.arg.keys = {"level"}
    /\ config.level = "warn"
    /\ ConfigValue.enabledEnvironments = <<"server">>

\* C20: no leveled call raises to its caller, whatever the level, the
\* message and the metadata, metadata that cannot be serialized included:
\* the call returns normally, and when it passed the gates its line is
\* still written.
C20_NeverRaises ==
    op.name = "log" =>
        /\ error = NoError
        /\ shouldLog(op.arg.level) => calls # <<>>

\* A leveled call that failed a gate made no console call and threw nothing.
C21_AtReturn ==
    (op.name = "log" /\ ~shouldLog_v2(op.arg.level))
        => (calls = <<>> /\ error = NoError)

\* The call left the configuration and the environment as they were, and
\* what it started changes nothing later: here the call of initConfig() it
\* started is the only one waiting.
C21_Later ==
    /\ (op'.name = "log" /\ ~shouldLog_v2(op'.arg.level))
          => (ConfigValue' = ConfigValue /\ currentEnvironment' = currentEnvironment)
    /\ (/\ op.name = "log"
        /\ ~shouldLog_v2(op.arg.level)
        /\ ~initialized
        /\ Len(pending) = 1
        /\ op'.name = "initConfig.loaded")
       => (calls' = <<>> /\ ConfigValue' = ConfigValue)

\* C21: a leveled call that fails a gate (disabled, level below the
\* minimum, ssrOnly, environment not in the allow-list) has no effect at
\* all: no console call, no error, and the configuration and the
\* environment are as they were, when it returns and at any later time.
C21_GateFailureNoEffect == []C21_AtReturn /\ [][C21_Later]_vars

\* What may stand before the timestamp: nothing, an emoji, or a colour and
\* an emoji.
ClaimPrefixes ==
    {<<>>}
    \cup {<<logLevelEmojis[l], " ">> : l \in LogLevel}
    \cup {<<c, logLevelEmojis[l], " ">> : c \in ClaimAnsi, l \in LogLevel}
    \cup {<<c>> : c \in ClaimAnsi}

\* "[<timestamp>] [<LEVEL>] " and the message of the caller.
ClaimBody(level, msg) ==
    <<"[", Timestamp, "]", " ", "[", ToUpperCase(level), "]", " ",
      ToStr(Coalesce(msg, Str("undefined")))>>

\* C22: the first argument of every emitted record is an optional emoji and
\* colour prefix, then "[<timestamp>] [<LEVEL>] ", then exactly the message
\* of the caller (or "undefined"), then at most the colour reset; the
\* timestamp and the level tag occur once each and the metadata is no part
\* of it.
C22_LineFormat ==
    (op.name = "log" /\ calls # <<>>)
    => \E pre \in ClaimPrefixes, post \in {<<>>, <<ClaimReset>>} :
          calls[1].args[1] = pre \o ClaimBody(op.arg.level, op.arg.msg) \o post

\* C23: asynchronous initialisation is one-time: however often initConfig
\* is invoked, directly or by leveled calls, and however the invocations
\* fall among loads that are pending or have failed, the configuration file
\* is read at most once (and so merged into the configuration at most once,
\* every merge following a read of its own).
C23_ReadOnce == reads <= 1

\* No call of initConfig() has gone on past its await yet: none has set
\* initialized, and none has read a file whose content setConfig refused.
NoLoadCompleted == ~initialized /\ reads = 0

\* The gates of the default configuration: level info and the allow-list
\* server, browser, edge.
DefaultGates(level) ==
    /\ ClaimRank[level] >= ClaimRank["info"]
    /\ currentEnvironment \in {"server", "browser", "edge"}

C24_State ==
    (op.name = "log" /\ NoLoadCompleted)
    => ((calls # <<>>) <=> DefaultGates(op.arg.level))

\* The leveled call returns with the loads it found or started still
\* waiting, and with the configuration it found.
C24_Step ==
    op'.name = "log"
    => /\ Len(pending') >= Len(pending)
       /\ initialized' = initialized
       /\ reads' = reads
       /\ ConfigValue' = ConfigValue

\* C24: a leveled call made while the loading of the configuration has
\* started and not completed returns without waiting for it and, the host
\* having made no setConfig call, is gated by the default configuration
\* (level info, default allow-list); the load changes the gating only of
\* the calls made after it has completed.
C24_PendingLoadUsesDefaults == []C24_State /\ [][C24_Step]_vars

\* On the server, a debug call was dropped while a load was waiting that
\* started before it.
C24_Witness ==
    /\ op.name = "log"
    /\ op.arg.level = "debug"
    /\ NoLoadCompleted
    /\ Len(pending) = MaxPending
    /\ isServer(window, runtime # "none", runtime = "edge")
    /\ calls = <<>>

\* The configuration cfg with the file's keys laid over it.
MergedWith(cfg, file) ==
    [level |-> IF "level" \in file.keys THEN file.level ELSE cfg.level,
     enabledEnvironments |->
         IF "enabledEnvironments" \in file.keys THEN file.enabledEnvironments
         ELSE cfg.enabledEnvironments]

\* C25: when the configuration source yields a valid partial configuration
\* F, the configuration after initConfig() has resolved is the configuration
\* before merged with F (unchanged when F is the empty object), and the
\* value initConfig() resolved with equals what getConfig() returns at that
\* moment.
C25_InitConfigMerges ==
    [][(op'.name = "initConfig.loaded" /\ error' = NoError)
       => /\ ConfigValue' = MergedWith(ConfigValue, op'.arg.file)
          /\ held' # NoObject
          /\ held'.level = ConfigValue'.level
          /\ heap'[held'.enabledEnvironments] = ConfigValue'.enabledEnvironments]_vars

\* initConfig() has resolved with the level of the file, which differs from
\* the level before the call.
C25_Witness ==
    /\ op.name = "initConfig.loaded"
    /\ error = NoError
    /\ op.arg.file.keys = {"level"}
    /\ op.arg.file.level = "debug"
    /\ config.level = "debug"
    /\ held # NoObject
    /\ held.level = "debug"

\* C26: a level outside the six levels does not silence the logger: it is
\* treated as the lowest level, so a trace() call made after such a
\* setLevel on an enabled logger, its SSR gate open, reaches the sink.
C26_InvalidLevelIsLowest ==
    (/\ op.name = "logger.log"
     /\ op.arg.level = "trace"
     /\ currentLevel \notin LogLevel
     /\ ~disabled
     /\ SsrGate)
    => calls # <<>>

\* What "Application started" looks like at the sink of the logger.
ClaimStartedCalls ==
    loggerStrategies_v1(strategy, "info", <<<<"msg", StartedMessage>>>>)

ClaimStartedLogged == calls # <<>> /\ <<calls[Len(calls)]>> = ClaimStartedCalls

\* The effect that ran with disabled=true has disabled the shared logger
\* and logged nothing.
C27_EffectDisabled ==
    (op.name = "provider.effect" /\ op.arg.disabled)
    => (disabled /\ ~enabled /\ ~ClaimStartedLogged)

\* The effect that ran with disabled=false has applied its settings, and
\* "Application started" was logged exactly when they let it through.
C27_EffectEnabled ==
    (op.name = "provider.effect" /\ ~op.arg.disabled)
    => /\ op.arg.initialLevel # "" => currentLevel = op.arg.initialLevel
       /\ ssrOnly = op.arg.ssrOnly
       /\ enabled /\ ~disabled
       /\ ClaimStartedLogged <=> (LevelAtLeast("info", currentLevel) /\ SsrGate)

\* The cleanup of an effect that ran with disabled=true logs nothing.
C27_CleanupSilent ==
    (props.mounted /\ props.disabled /\ op'.name = "provider.cleanup")
    => calls' = <<>>

\* While the props are those of a disabled provider, no leveled call
\* reaches a sink.
C27_DisabledSilent ==
    (props.mounted /\ props.disabled /\ op.name = "logger.log") => calls = <<>>

\* C27: when the effect of LoggerProvider runs with disabled=true the shared
\* logger is disabled and, until the props change, no leveled call on it
\* reaches a sink, the provider's own "Application started" and
\* "Application stopped" included; when it runs with disabled=false the
\* level, ssrOnly and enabled settings are applied before "Application
\* started" is logged, which is therefore gated by the new settings.
C27_ProviderGates ==
    /\ [](C27_EffectDisabled /\ C27_EffectEnabled /\ C27_DisabledSilent)
    /\ [][C27_CleanupSilent]_vars

\* The logger a disabled provider has disabled stays disabled until the
\* props change or the host calls enable() on it.
C27_StaysDisabled ==
    (props.mounted /\ props.disabled /\ disabled
        /\ op'.name \notin {"provider.effect", "enable"})
    => disabled'

\* A disabled logger passes no leveled call on.
C27_DisabledLoggerSilent ==
    (disabled /\ op.name = "logger.log") => calls = <<>>

\* C27 as amended: as C27, the silence of the shared logger lasting until
\* the props change or the host itself calls enable() on the logger.
C27_Amended ==
    /\ [](C27_EffectDisabled /\ C27_EffectEnabled /\ C27_DisabledLoggerSilent)
    /\ [][C27_CleanupSilent /\ C27_StaysDisabled]_vars

\* An effect with disabled=false and initialLevel error has run on a logger
\* whose level let info through before: "Application started" is dropped.
C27_Witness ==
    /\ op.name = "provider.effect"
    /\ ~op.arg.disabled
    /\ op.arg.initialLevel = "error"
    /\ currentLevel = "error"
    /\ SsrGate
    /\ calls = <<>>

\* C28: the message rendered in the first argument of the console call is
\* always the first argument of the leveled call (the literal "undefined"
\* when there is none): nothing in the metadata, a key named "msg"
\* included, replaces or alters it, and such a key is serialized in the
\* second argument like any other key.
C28_MessageIsFirstArgument ==
    (op.name = "log" /\ calls # <<>>)
    => /\ TagThenText(calls[1].args[1], op.arg.level,
                      ToStr(Coalesce(op.arg.msg, Str("undefined"))))
       /\ HasKey(op.arg.meta, "msg")
             => calls[1].args[2] = JsonStringify(op.arg.meta)

\* C29: in the module whose leveled calls start initConfig() themselves, a
\* configuration the host set with setConfig stays in effect until the host
\* calls setConfig, resetConfig or initConfig again: the load a leveled call
\* started in the background, still waiting when the host's setConfig
\* succeeded, does not change the configuration when it completes.
C29_HostConfigStays ==
    [][(/\ op.name = "setConfig"
        /\ error = NoError
        /\ op'.name = "initConfig.loaded"
        /\ op'.arg.origin = "leveled")
       => ConfigValue' = ConfigValue]_vars

\* C30: in every state of a ConfigurableLogger, constructed with either
\* value of initiallyEnabled and taken through any sequence of enable,
\* disable, setLevel, setSSROnly and leveled calls, the private flags
\* satisfy enabled = not disabled, so that isEnabled() is true exactly when
\* the enabled gate of log() lets a call through: a leveled call that
\* passes the level and SSR gates reaches the sink exactly when isEnabled().
C30_FlagsAgree ==
    /\ enabled = ~disabled
    /\ (op.name = "logger.log" /\ LevelAtLeast(op.arg.level, currentLevel) /\ SsrGate)
          => (calls # <<>> <=> isEnabled)

\* isEnabled() is true and a leveled call that passes the other gates has
\* reached the sink.
C30_Witness ==
    /\ op.name = "logger.log"
    /\ isEnabled
    /\ ~disabled
    /\ LevelAtLeast(op.arg.level, currentLevel)
    /\ SsrGate
    /\ calls # <<>>

====
